---- MODULE Spec2Model ----
(***************************************************************************)
(* Model of scripts/ingest_stock_data.py: main's per-ticker loop, the      *)
(* column normalisation of fetch_data and the create/append cycle of       *)
(* ingest_to_duckdb against one DuckDB file.                                *)
(*                                                                          *)
(* A data frame is a record [cols, rows]: cols is the column order, rows a *)
(* sequence of functions from column name to value.  Timestamps are        *)
(* integers counted in ticks, TicksPerDay ticks to a calendar day; a DATE   *)
(* is a day number.  A path is the sequence of its components.              *)
(***************************************************************************)
EXTENDS Integers, Sequences, FiniteSets, TLC

\* ---------------------------------------------------------------- bounds
MaxTickers == 2
MaxRows == 2
MaxRuns == 2
TicksPerDay == 2

\* ------------------------------------------------------- generic helpers
Range(s) == {s[k] : k \in DOMAIN s}

IsPrefix(s, t) == Len(s) <= Len(t) /\ SubSeq(t, 1, Len(s)) = s

SeqsUpTo(S, n) == UNION {[1..m -> S] : m \in 1..n}

\* ------------------------------------------------- command line (argparse)
Symbols == {"spy", "AAPL"}

TickerLists == SeqsUpTo(Symbols, MaxTickers)

DbPaths == {<<"data", "financial.duckdb">>, <<"financial.duckdb">>}

\* ------------------------------------------------------ external provider
SymIndex(t) == IF t = "spy" THEN 1 ELSE 2

ColIndex(c) ==
    CASE c = "Open" -> 1
      [] c = "High" -> 2
      [] c = "Low" -> 3
      [] c = "Close" -> 4
      [] c = "Adj Close" -> 5
      [] c = "Volume" -> 6
      [] OTHER -> 7

\* the value the provider reports in column c of row j for ticker t
Quote(t, j, c) == 100 * SymIndex(t) + 10 * j + ColIndex(c)

\* the index timestamp of row j: day j, with a time of day that is zero for
\* one symbol and not for the other
Stamp(t, j) == j * TicksPerDay + ((SymIndex(t) - 1) % TicksPerDay)

LayoutFull == <<"Open", "High", "Low", "Close", "Adj Close", "Volume">>
LayoutNoAdj == <<"Open", "High", "Low", "Close", "Volume">>
LayoutSorted == <<"Adj Close", "Close", "Dividends", "High", "Low", "Open", "Volume">>
LayoutNoVolume == <<"Open", "High", "Low", "Close", "Adj Close">>

Layouts == {LayoutFull, LayoutNoAdj, LayoutSorted, LayoutNoVolume}

\* yf.download: a frame indexed by Date with the provider's columns
Download(t, lay, n) ==
    [index |-> [j \in 1..n |-> Stamp(t, j)],
     cols |-> lay,
     rows |-> [j \in 1..n |-> [c \in Range(lay) |-> Quote(t, j, c)]]]

\* ---------------------------------------------------- data frame algebra
EmptyFrame == [cols |-> <<>>, rows |-> <<>>]

\* df.reset_index(inplace=True): the index becomes the first column, "Date"
ResetIndex(raw) ==
    [cols |-> <<"Date">> \o raw.cols,
     rows |-> [j \in DOMAIN raw.rows |->
                 [c \in {"Date"} \cup DOMAIN raw.rows[j] |->
                    IF c = "Date" THEN raw.index[j] ELSE raw.rows[j][c]]]]

NewName(m, c) == IF c \in DOMAIN m THEN m[c] ELSE c

\* df.rename(columns=m, inplace=True)
Rename(df, m) ==
    [cols |-> [k \in DOMAIN df.cols |-> NewName(m, df.cols[k])],
     rows |-> [j \in DOMAIN df.rows |->
                 [c2 \in {NewName(m, c) : c \in DOMAIN df.rows[j]} |->
                    df.rows[j][CHOOSE c \in DOMAIN df.rows[j] : NewName(m, c) = c2]]]]

\* df[c] = vals: overwrite column c, or append it as the last column
SetColumn(df, c, vals) ==
    [cols |-> IF c \in Range(df.cols) THEN df.cols ELSE Append(df.cols, c),
     rows |-> [j \in DOMAIN df.rows |->
                 [c2 \in DOMAIN df.rows[j] \cup {c} |->
                    IF c2 = c THEN vals[j] ELSE df.rows[j][c2]]]]

Columns == <<"date", "open", "high", "low", "close", "adj_close", "volume", "ticker">>


\* ------------------------------------------------------------ fetch_data
\* adj_close always taken from the raw close
EnsureAdjCloseAlways(df) ==
    SetColumn(df, "adj_close", [j \in DOMAIN df.rows |-> df.rows[j]["Close"]])

\* lines 35-38: rename 'Adj Close', or default adj_close to the raw close
EnsureAdjClose(df) ==
    IF "Adj Close" \in Range(df.cols)
    THEN Rename(df, "Adj Close" :> "adj_close")
    ELSE SetColumn(df, "adj_close", [j \in DOMAIN df.rows |-> df.rows[j]["Close"]])

\* the symbol upper-cased before it is attached
AddTickerUpper(df, ticker) ==
    SetColumn(df, "ticker", [j \in DOMAIN df.rows |-> IF ticker = "spy" THEN "SPY" ELSE ticker])

\* line 40: df['ticker'] = ticker
AddTicker(df, ticker) ==
    SetColumn(df, "ticker", [j \in DOMAIN df.rows |-> ticker])

\* lines 41-48: the provider's names to the lowercase schema names
NormalizeNames(df) ==
    Rename(df, ("Date" :> "date") @@ ("Open" :> "open") @@ ("High" :> "high")
               @@ ("Low" :> "low") @@ ("Close" :> "close") @@ ("Volume" :> "volume"))

\* the frame handed on without the explicit selection
SelectColumnsKeepAll(df) == df

\* line 50: df[[...]] keeps the listed columns, in the listed order
SelectColumns(df) ==
    [cols |-> Columns,
     rows |-> [j \in DOMAIN df.rows |-> [c \in Range(Columns) |-> df.rows[j][c]]]]

\* the result of fetch_data on the frame the provider returned: the table, or
\* the KeyError of a label the frame does not have
fetch_data(ticker, raw) ==
    LET df1 == ResetIndex(raw)
        df4 == NormalizeNames(AddTicker(EnsureAdjClose(df1), ticker))
    IN  IF "Adj Close" \notin Range(df1.cols) /\ "Close" \notin Range(df1.cols)
        THEN [exc |-> "KeyError", df |-> EmptyFrame]
        ELSE IF ~(Range(Columns) \subseteq Range(df4.cols))
        THEN [exc |-> "KeyError", df |-> EmptyFrame]
        ELSE [exc |-> "none", df |-> SelectColumns(df4)]

\* ------------------------------------------------------ ingest_to_duckdb
Schema ==
    << [name |-> "date", type |-> "DATE"],
       [name |-> "open", type |-> "DOUBLE"],
       [name |-> "high", type |-> "DOUBLE"],
       [name |-> "low", type |-> "DOUBLE"],
       [name |-> "close", type |-> "DOUBLE"],
       [name |-> "adj_close", type |-> "DOUBLE"],
       [name |-> "volume", type |-> "BIGINT"],
       [name |-> "ticker", type |-> "VARCHAR"] >>

\* a stock_prices table some other writer left in the file: no ticker column
ForeignSchema ==
    << [name |-> "Date", type |-> "DATE"],
       [name |-> "Open", type |-> "DOUBLE"],
       [name |-> "High", type |-> "DOUBLE"],
       [name |-> "Low", type |-> "DOUBLE"],
       [name |-> "Close", type |-> "DOUBLE"],
       [name |-> "Adj Close", type |-> "DOUBLE"],
       [name |-> "Volume", type |-> "BIGINT"] >>

ForeignRow ==
    [c \in {ForeignSchema[k].name : k \in DOMAIN ForeignSchema} |->
        IF c = "Date" THEN 1 ELSE 900 + ColIndex(c)]

NoTable == [cols |-> <<>>, rows |-> <<>>]

\* os.path.dirname(db_path)
dirname(path) == SubSeq(path, 1, Len(path) - 1)

\* os.makedirs(d, exist_ok=True): the empty path is no directory to create
makedirs(dirs, d) ==
    IF d = <<>>
    THEN [exc |-> "FileNotFoundError", dirs |-> dirs]
    ELSE [exc |-> "none", dirs |-> dirs \cup {SubSeq(d, 1, k) : k \in 1..Len(d)}]

\* CREATE OR REPLACE TABLE stock_prices (...)
CreateOrReplaceTable(tbl) == [cols |-> Schema, rows |-> <<>>]

\* CREATE TABLE IF NOT EXISTS stock_prices (...)
CreateTableIfNotExists(tbl) ==
    IF tbl.cols = <<>> THEN [cols |-> Schema, rows |-> <<>>] ELSE tbl

\* the value a column of the given type stores for v
Cast(type, v) == IF type = "DATE" THEN v \div TicksPerDay ELSE v

\* the timestamp a stored DATE reads back as: midnight of that day
ReadDate(d) == d * TicksPerDay

\* an insert whose column list has close and adj_close exchanged
PositionalRowSwapped(tblCols, df, r) ==
    [c \in {tblCols[k].name : k \in DOMAIN tblCols} |->
        LET c1 == IF c = "close" THEN "adj_close" ELSE IF c = "adj_close" THEN "close" ELSE c
            k == CHOOSE k \in DOMAIN tblCols : tblCols[k].name = c1
        IN  Cast(tblCols[k].type, r[df.cols[k]])]

\* the table row INSERT ... SELECT * builds from a frame row: the k-th frame
\* column goes to the k-th table column
PositionalRow(tblCols, df, r) ==
    [c \in {tblCols[k].name : k \in DOMAIN tblCols} |->
        LET k == CHOOSE k \in DOMAIN tblCols : tblCols[k].name = c
        IN  Cast(tblCols[k].type, r[df.cols[k]])]

\* INSERT INTO stock_prices SELECT * FROM df
InsertSelectStar(tbl, df) ==
    IF Len(df.cols) # Len(tbl.cols)
    THEN [exc |-> "BinderException", tbl |-> tbl]
    ELSE [exc |-> "none",
          tbl |-> [cols |-> tbl.cols,
                   rows |-> tbl.rows \o
                        [j \in DOMAIN df.rows |-> PositionalRow(tbl.cols, df, df.rows[j])]]]

\* the whole call: what it leaves of the file system, the database file, the
\* table and the connection handle, and the exception it raised, if any
ingest_to_duckdb(df, db_path, dirs0, file0, tbl0) ==
    LET md == makedirs(dirs0, dirname(db_path))
        created == CreateTableIfNotExists(tbl0)
        ins == InsertSelectStar(created, df)
    IN  IF md.exc # "none"
        THEN [exc |-> md.exc, dirs |-> dirs0, file |-> file0, tbl |-> tbl0, con |-> "none"]
        ELSE IF ins.exc # "none"
        THEN [exc |-> ins.exc, dirs |-> md.dirs, file |-> TRUE, tbl |-> created, con |-> "open"]
        ELSE [exc |-> "none", dirs |-> md.dirs, file |-> TRUE, tbl |-> ins.tbl, con |-> "closed"]

\* ------------------------------------------------------------------ state
VARIABLES
    tickers,        \* args.tickers
    db_path,        \* args.db_path
    layout,         \* environment: the columns the provider reports
    window,         \* environment: trading days in [start_date, end_date)
    dirs,           \* file system: the directories that exist below the cwd
    dbfile,         \* file system: whether the database file exists
    stock_prices,   \* database: the destination table, [cols, rows]
    run,            \* number of the current process
    i,              \* main: position of the loop in args.tickers
    pc,             \* main: the statement to execute next
    df,             \* main: the frame fetch_data returned last
    out,            \* standard output of the current process
    con,            \* the connection handle of the last ingest_to_duckdb call
    exc             \* the unhandled exception that ended the process

vars == <<tickers, db_path, layout, window, dirs, dbfile, stock_prices,
          run, i, pc, df, out, con, exc>>

env == <<db_path, layout, window>>
store == <<dirs, dbfile, stock_prices>>

FetchingLine(t) == [kind |-> "Fetching", ticker |-> t, n |-> 0]
IngestingLine(n, t) == [kind |-> "Ingesting", ticker |-> t, n |-> n]
DoneLine == [kind |-> "Done", ticker |-> "", n |-> 0]

\* the process's exit status: 0, or 1 after an unhandled exception
ExitStatus == IF exc = "none" THEN 0 ELSE 1

Init ==
    /\ tickers \in TickerLists
    /\ db_path \in DbPaths
    /\ layout \in Layouts
    /\ window \in 0..MaxRows
    /\ dirs \in {{}, {dirname(db_path)} \ {<<>>}}
    /\ \E existing \in {NoTable,
                        [cols |-> Schema, rows |-> <<>>],
                        [cols |-> ForeignSchema, rows |-> <<ForeignRow>>]} :
          /\ stock_prices = existing
          /\ dbfile = (existing # NoTable)
          /\ dbfile => (dirname(db_path) = <<>> \/ dirname(db_path) \in dirs)
    /\ run = 1
    /\ i = 1
    /\ pc = "print_fetching"
    /\ df = EmptyFrame
    /\ out = <<>>
    /\ con = "none"
    /\ exc = "none"

\* line 91
PrintFetching ==
    /\ pc = "print_fetching"
    /\ out' = Append(out, FetchingLine(tickers[i]))
    /\ pc' = "fetch"
    /\ UNCHANGED <<tickers, env, store, run, i, df, con, exc>>

\* a loop that goes on to the next ticker when the fetch fails
FetchContinue ==
    /\ pc = "fetch"
    /\ \/ /\ exc' = "ProviderError"
          /\ pc' = IF i + 1 > Len(tickers) THEN "print_done" ELSE "print_fetching"
          /\ i' = i + 1
          /\ df' = df
       \/ LET res == fetch_data(tickers[i], Download(tickers[i], layout, window))
          IN  /\ exc' = res.exc
              /\ pc' = IF res.exc = "none" THEN "print_ingesting" ELSE "exited"
              /\ df' = IF res.exc = "none" THEN res.df ELSE df
              /\ i' = i
    /\ UNCHANGED <<tickers, env, store, run, out, con>>

\* line 92: the provider call raises, or fetch_data normalises what it returned
Fetch ==
    /\ pc = "fetch"
    /\ \/ /\ exc' = "ProviderError"
          /\ pc' = "exited"
          /\ df' = df
       \/ LET res == fetch_data(tickers[i], Download(tickers[i], layout, window))
          IN  /\ exc' = res.exc
              /\ pc' = IF res.exc = "none" THEN "print_ingesting" ELSE "exited"
              /\ df' = IF res.exc = "none" THEN res.df ELSE df
    /\ UNCHANGED <<tickers, env, store, run, i, out, con>>

\* the progress line left out before the ingest
PrintIngestingSkipped ==
    /\ pc = "print_ingesting"
    /\ pc' = "ingest"
    /\ UNCHANGED <<tickers, env, store, run, i, df, con, exc, out>>

\* line 93
PrintIngesting ==
    /\ pc = "print_ingesting"
    /\ out' = Append(out, IngestingLine(Len(df.rows), tickers[i]))
    /\ pc' = "ingest"
    /\ UNCHANGED <<tickers, env, store, run, i, df, con, exc>>

\* line 94, and the loop's step to the next ticker
Ingest ==
    /\ pc = "ingest"
    /\ LET res == ingest_to_duckdb(df, db_path, dirs, dbfile, stock_prices)
       IN  /\ dirs' = res.dirs
           /\ dbfile' = res.file
           /\ stock_prices' = res.tbl
           /\ con' = res.con
           /\ exc' = res.exc
           /\ IF res.exc # "none"
              THEN pc' = "exited" /\ i' = i
              ELSE /\ i' = i + 1
                   /\ pc' = IF i + 1 > Len(tickers) THEN "print_done" ELSE "print_fetching"
    /\ UNCHANGED <<tickers, env, run, df, out>>

\* line 96
PrintDone ==
    /\ pc = "print_done"
    /\ out' = Append(out, DoneLine)
    /\ pc' = "exited"
    /\ UNCHANGED <<tickers, env, store, run, i, df, con, exc>>

\* the script is started again on the same database file
NewRun ==
    /\ pc = "exited"
    /\ run < MaxRuns
    /\ run' = run + 1
    /\ tickers' \in TickerLists
    /\ i' = 1
    /\ pc' = "print_fetching"
    /\ df' = EmptyFrame
    /\ out' = <<>>
    /\ con' = "none"
    /\ exc' = "none"
    /\ UNCHANGED <<env, store>>

Next == PrintFetching \/ Fetch \/ PrintIngesting \/ Ingest \/ PrintDone \/ NewRun

Spec == Init /\ [][Next]_vars

\* ----------------------------------------------------------- properties
FetchErrors == {"ProviderError", "KeyError"}

Last(s) == s[Len(s)]

\* the step in which main's call of ingest_to_duckdb runs and returns or raises
IngestCall == pc = "ingest" /\ pc' # "ingest"

\* the table rows a frame's rows are stored as under the fixed schema
Stored(frame) == [j \in DOMAIN frame.rows |-> PositionalRow(Schema, frame, frame.rows[j])]

\* C1: one call of ingest_to_duckdb with R against a destination table of n
\* rows (absent, or of the fixed schema) leaves n + |R| rows, the rows of R
\* appended once more whatever the table already held.
C1_AppendOnly ==
    [][(IngestCall /\ stock_prices.cols \in {<<>>, Schema})
         => /\ Len(stock_prices'.rows) = Len(stock_prices.rows) + Len(df.rows)
            /\ stock_prices'.rows = stock_prices.rows \o Stored(df)]_vars

\* C2: when fetch_data fails for the ticker at position i the process ends
\* in that step with the directories, the database file, the table and the
\* connection untouched, and its output stops at that ticker's Fetching line:
\* nothing was fetched or ingested for a later ticker.
C2_FetchFailureAborts ==
    /\ [][(pc = "fetch" /\ exc' # "none")
            => (pc' = "exited" /\ UNCHANGED <<store, con, i, out, tickers>>)]_vars
    /\ []((pc = "exited" /\ exc \in FetchErrors)
            => /\ Len(out) = 2 * i - 1
               /\ Last(out) = FetchingLine(tickers[i])
               /\ con # "open")

C2_Witness ==
    /\ pc = "exited"
    /\ exc \in FetchErrors
    /\ i = 1
    /\ Len(tickers) > 1

\* C3 as stated: the rows a successful ingest adds read back equal, field by
\* field, to the rows of the frame, the date included.
C3_RoundTripExact ==
    [][(IngestCall /\ exc' = "none")
         => /\ Len(stock_prices'.rows) = Len(stock_prices.rows) + Len(df.rows)
            /\ \A j \in DOMAIN df.rows : \A c \in Range(Columns) :
                 LET got == stock_prices'.rows[Len(stock_prices.rows) + j][c]
                 IN  IF c = "date" THEN ReadDate(got) = df.rows[j][c]
                                   ELSE got = df.rows[j][c]]_vars

\* C3 amended: the rows a successful ingest adds read back equal, field by
\* field, to the rows of the frame, each value in the table column of the
\* same name, the date compared by calendar day (time of day ignored).
C3_RoundTrip ==
    [][(IngestCall /\ exc' = "none")
         => /\ Len(stock_prices'.rows) = Len(stock_prices.rows) + Len(df.rows)
            /\ \A j \in DOMAIN df.rows : \A c \in Range(Columns) :
                 LET got == stock_prices'.rows[Len(stock_prices.rows) + j][c]
                 IN  IF c = "date"
                     THEN ReadDate(got) \div TicksPerDay = df.rows[j][c] \div TicksPerDay
                     ELSE got = df.rows[j][c]]_vars

C3_Witness ==
    /\ con = "closed"
    /\ stock_prices.cols = Schema
    /\ \E j \in DOMAIN stock_prices.rows :
          /\ stock_prices.rows[j]["ticker"] = "AAPL"
          /\ stock_prices.rows[j]["close"] # stock_prices.rows[j]["adj_close"]

\* C4: every table fetch_data returned has exactly the eight columns date,
\* open, high, low, close, adj_close, volume, ticker, in that order, in its
\* column list and in every row, whatever columns the provider reported.
C4_FixedColumns ==
    df # EmptyFrame
      => /\ df.cols = Columns
         /\ \A j \in DOMAIN df.rows : DOMAIN df.rows[j] = Range(Columns)

C4_Witness ==
    /\ pc = "print_ingesting"
    /\ layout = LayoutSorted
    /\ Len(df.rows) > 0

\* C5: outside ingest_to_duckdb no connection handle it opened is still open,
\* whether the call returned or raised.
C5_HandleClosed == con # "open"

\* C6: for every destination path the directory-creation step succeeds: after
\* the call the parent directory exists, the call did not end with the
\* step's error and the database was opened.
C6_MakedirsNeverFails ==
    [][IngestCall
         => /\ exc' # "FileNotFoundError"
            /\ (dirname(db_path) = <<>> \/ dirname(db_path) \in dirs')
            /\ con' # "none"]_vars

\* C7: the output is Fetching and Ingesting lines alternating in the order of
\* args.tickers; a fetch runs right after its Fetching line and an ingest
\* right after its Ingesting line; "Done." is printed if and only if the
\* process ended with every ticker fetched and ingested and no exception;
\* a failing fetch or ingest ends the process with status 1 and prints
\* nothing more.
C7_ProgressLines ==
    /\ [](/\ Len(out) <= 2 * Len(tickers) + 1
          /\ \A j \in DOMAIN out :
               IF j = 2 * Len(tickers) + 1 THEN out[j] = DoneLine
               ELSE IF j % 2 = 1 THEN out[j] = FetchingLine(tickers[(j + 1) \div 2])
               ELSE out[j].kind = "Ingesting" /\ out[j].ticker = tickers[j \div 2]
          /\ pc = "fetch" => (Len(out) = 2 * i - 1 /\ Last(out) = FetchingLine(tickers[i]))
          /\ pc = "ingest"
               => (Len(out) = 2 * i /\ Last(out) = IngestingLine(Len(df.rows), tickers[i]))
          /\ (DoneLine \in Range(out)) <=> (pc = "exited" /\ exc = "none")
          /\ (pc = "exited" /\ exc = "none")
               => (i = Len(tickers) + 1 /\ Len(out) = 2 * Len(tickers) + 1)
          /\ exc # "none" => pc = "exited")
    /\ [][((pc \in {"fetch", "ingest"} /\ pc' = "exited")
             => (ExitStatus' = 1 /\ out' = out))
          /\ ((pc \in {"fetch", "ingest"} /\ pc' # "exited") => ExitStatus' = 0)
          /\ (pc = "exited" => run' # run)]_vars

C7_Witness ==
    /\ pc = "exited"
    /\ exc = "none"
    /\ Len(tickers) = MaxTickers
    /\ Last(out) = DoneLine

\* C8: every row fetch_data returned carries in ticker the requested symbol
\* exactly as it was passed, with no change of case.
C8_TickerLiteral ==
    pc \in {"print_ingesting", "ingest"}
      => \A j \in DOMAIN df.rows : df.rows[j]["ticker"] = tickers[i]

C8_Witness ==
    /\ pc = "print_ingesting"
    /\ tickers[i] = "spy"
    /\ Len(df.rows) > 0

\* C9: in every row fetch_data returned close is the provider's Close, and
\* adj_close is the provider's Adj Close when the provider reported that
\* column and the row's close when it did not.
C9_AdjCloseDefault ==
    pc \in {"print_ingesting", "ingest"}
      => \A j \in DOMAIN df.rows :
            /\ df.rows[j]["close"] = Quote(tickers[i], j, "Close")
            /\ IF "Adj Close" \in Range(layout)
               THEN df.rows[j]["adj_close"] = Quote(tickers[i], j, "Adj Close")
               ELSE df.rows[j]["adj_close"] = df.rows[j]["close"]

C9_Witness ==
    /\ pc = "print_ingesting"
    /\ layout = LayoutNoAdj
    /\ Len(df.rows) > 0

\* C10: in every step, of any run and also of one that fails, the table keeps
\* its columns once it exists and its rows stay where they are, new rows only
\* added after them; so the rows of the tickers before a failing one remain.
C10_TableOnlyGrows ==
    [][/\ IsPrefix(stock_prices.rows, stock_prices'.rows)
       /\ stock_prices.cols # <<>> => stock_prices'.cols = stock_prices.cols]_vars

C10_Witness ==
    /\ pc = "exited"
    /\ exc # "none"
    /\ i = 2
    /\ run = 2
    /\ stock_prices.cols = Schema
    /\ Len(stock_prices.rows) > 2 * window
    /\ window > 0

====
